---- MODULE Spec2Model ----
(***************************************************************************)
(* libsyntax2: File (parse / reparse / errors), the incremental reparse    *)
(* algorithm, the debug block-structure validator and the typed AST        *)
(* projection layer (cast, capability accessors).                          *)
(*                                                                         *)
(* Texts are sequences of one-character strings.  A tree is the sequence   *)
(* of its nodes in preorder (document order); a node is a record           *)
(*   [kind, parent, text]                                                  *)
(* where parent is the index of the parent node (0 at the root) and text   *)
(* is the token text of a leaf (<<>> for a composite node).  Offsets and   *)
(* ranges are never stored: they are derived from the leaf widths.         *)
(***************************************************************************)
EXTENDS Integers, Sequences, FiniteSets, TLC

VARIABLES
    debug,      \* build configuration: TRUE iff cfg(debug_assertions)
    op,         \* the operation that produced this state
    file,       \* the receiver File
    orig,       \* the receiver as it was when it was created
    edit,       \* the AtomEdit of the last reparse call
    result,     \* the value returned by the last parse / reparse call
    returned,   \* the Vec<SyntaxError> handed out by the last errors() call
    firstErrs,  \* the list as the first errors() call on the receiver returned it
    mutated,    \* TRUE once the caller changed a list errors() handed out
    tree,       \* the tree the typed AST layer is used on
    acc         \* the last cast / accessor call on tree and what it returned

fvars == <<debug, file, orig, edit, result, returned, firstErrs, mutated>>
avars == <<tree, acc>>
vars == <<op, fvars, avars>>

(***************************************************************************)
(* Bounds of the model.                                                    *)
(***************************************************************************)
MaxLen == 3       \* longest text
MaxIns == 1       \* longest insert string of an edit
MaxVec == 2       \* longest list a caller grows a returned Vec to
MaxNodes == 4     \* most nodes of a tree grown for the accessors

Chars == {"{", "}", "f", "s"}

RECURSIVE SeqsUpTo(_, _)
SeqsUpTo(S, n) ==
    IF n = 0 THEN {<<>>}
    ELSE LET P == SeqsUpTo(S, n - 1)
         IN  P \cup {Append(p, c) : p \in {q \in P : Len(q) = n - 1}, c \in S}

Texts == SeqsUpTo(Chars, MaxLen)
Inserts == SeqsUpTo(Chars, MaxIns)

Last(s) == s[Len(s)]
Front(s) == SubSeq(s, 1, Len(s) - 1)

(***************************************************************************)
(* Tokenizer (lexer.rs): (kind, len) tokens covering the input, no gaps.   *)
(* "{" and "}" are one token each; a maximal run of letters is one token:  *)
(* the keyword FN_KW for "f", STRUCT_KW for "s", an IDENT for a longer run.*)
(***************************************************************************)
IsLetter(c) == c \in {"f", "s"}

RECURSIVE RunLen(_, _)
RunLen(text, i) ==
    IF i > Len(text) \/ ~IsLetter(text[i]) THEN 0 ELSE 1 + RunLen(text, i + 1)

RECURSIVE tokenize_from(_, _)
tokenize_from(text, i) ==
    IF i > Len(text) THEN <<>>
    ELSE IF text[i] = "{"
         THEN <<[kind |-> "L_CURLY", len |-> 1]>> \o tokenize_from(text, i + 1)
    ELSE IF text[i] = "}"
         THEN <<[kind |-> "R_CURLY", len |-> 1]>> \o tokenize_from(text, i + 1)
    ELSE LET n == RunLen(text, i)
             k == IF n > 1 THEN "IDENT"
                  ELSE IF text[i] = "f" THEN "FN_KW" ELSE "STRUCT_KW"
         IN  <<[kind |-> k, len |-> n]>> \o tokenize_from(text, i + n)

tokenize(text) == tokenize_from(text, 1)

(***************************************************************************)
(* Navigation over a tree (yellow::SyntaxNodeRef).                         *)
(***************************************************************************)
Node(k, p) == [kind |-> k, parent |-> p, text |-> <<>>]
Leaf(k, p, txt) == [kind |-> k, parent |-> p, text |-> txt]

RECURSIVE text_of(_, _, _)
text_of(t, i, j) ==       \* concatenated leaf texts of nodes i..j
    IF i > j THEN <<>> ELSE t[i].text \o text_of(t, i + 1, j)

\* last index of the subtree rooted at node i (preorder: a contiguous block)
subtree_end(t, i) ==
    LET after == {j \in (i + 1)..Len(t) : t[j].parent < i}
    IN  IF after = {} THEN Len(t)
        ELSE (CHOOSE j \in after : \A k \in after : j <= k) - 1

node_text(t, i) == text_of(t, i, subtree_end(t, i))
node_start(t, i) == Len(text_of(t, 1, i - 1))
node_end(t, i) == node_start(t, i) + Len(node_text(t, i))
node_range(t, i) == <<node_start(t, i), node_end(t, i)>>
is_leaf(t, i) == \A j \in 1..Len(t) : t[j].parent # i

child_indices(t, i) == {j \in 1..Len(t) : t[j].parent = i}

RECURSIVE SortedSeq(_)
SortedSeq(S) ==
    IF S = {} THEN <<>>
    ELSE LET m == CHOOSE x \in S : \A y \in S : x <= y
         IN  <<m>> \o SortedSeq(S \ {m})

node_children(t, i) == SortedSeq(child_indices(t, i))   \* in sibling order

next_sibling(t, i) ==     \* 0 stands for None
    LET later == {j \in child_indices(t, t[i].parent) : j > i}
    IN  IF t[i].parent = 0 \/ later = {} THEN 0
        ELSE CHOOSE j \in later : \A k \in later : j <= k

prev_sibling(t, i) ==
    LET earlier == {j \in child_indices(t, t[i].parent) : j < i}
    IN  IF t[i].parent = 0 \/ earlier = {} THEN 0
        ELSE CHOOSE j \in earlier : \A k \in earlier : j >= k

RECURSIVE ancestors(_, _)
ancestors(t, i) ==        \* the node itself first, the root last
    IF i = 0 THEN <<>> ELSE <<i>> \o ancestors(t, t[i].parent)

kinds_preorder(t) == [i \in 1..Len(t) |-> t[i].kind]

(***************************************************************************)
(* Grammar driver (grammar.rs, parser_impl.rs) against the builder         *)
(* contract start_node / token / finish_node / error.                      *)
(*   file  := item*                                                        *)
(*   item  := FN_KW block?  |  STRUCT_KW named_field_def_list?             *)
(*   block := "{" (item | block | NAME_REF)* "}"                           *)
(*   named_field_def_list := "{" NAMED_FIELD_DEF* "}"                      *)
(* Anything else is wrapped in an ERROR node and a diagnostic is recorded; *)
(* a "{" that opens neither a block nor a field list is an error block.    *)
(* `stack` holds the open brace-delimited nodes, the root at the bottom.   *)
(***************************************************************************)
Diag(pos, m) == [offset |-> pos, msg |-> m]

RECURSIVE unclosed_errors(_, _)
unclosed_errors(n, pos) ==
    IF n = 0 THEN <<>>
    ELSE <<Diag(pos, "expected R_CURLY")>> \o unclosed_errors(n - 1, pos)

RECURSIVE parse_tokens(_, _, _, _, _, _, _)
parse_tokens(text, toks, i, pos, stack, nodes, errs) ==
    IF i > Len(toks)
    THEN [green |-> nodes, errors |-> errs \o unclosed_errors(Len(stack) - 1, pos)]
    ELSE
    LET tk == toks[i]
        top == Last(stack)
        ctx == nodes[top].kind
        n == Len(nodes)
        txt == SubSeq(text, pos + 1, pos + tk.len)
        opens == i < Len(toks) /\ toks[i + 1].kind = "L_CURLY"
        brace == SubSeq(text, pos + tk.len + 1, pos + tk.len + 1)
        misplaced == IF ctx = "NAMED_FIELD_DEF_LIST"
                     THEN <<Diag(pos, "expected field declaration")>> ELSE <<>>
    IN
    IF tk.kind \in {"FN_KW", "STRUCT_KW"} THEN
        LET def == IF tk.kind = "FN_KW" THEN "FN_DEF" ELSE "STRUCT_DEF"
            body == IF tk.kind = "FN_KW" THEN "BLOCK" ELSE "NAMED_FIELD_DEF_LIST"
            head == nodes \o <<Node(def, top), Leaf(tk.kind, n + 1, txt)>>
            noname == <<Diag(pos + tk.len, "expected a name")>>
        IN  IF opens
            THEN parse_tokens(text, toks, i + 2, pos + tk.len + 1,
                     Append(stack, n + 3),
                     head \o <<Node(body, n + 1), Leaf("L_CURLY", n + 3, brace)>>,
                     errs \o misplaced \o noname)
            ELSE parse_tokens(text, toks, i + 1, pos + tk.len, stack, head,
                     errs \o misplaced \o noname
                          \o <<Diag(pos + tk.len, "expected L_CURLY")>>)
    ELSE IF tk.kind = "L_CURLY" THEN
        IF ctx = "BLOCK"
        THEN parse_tokens(text, toks, i + 1, pos + 1, Append(stack, n + 1),
                 nodes \o <<Node("BLOCK", top), Leaf("L_CURLY", n + 1, txt)>>, errs)
        ELSE parse_tokens(text, toks, i + 1, pos + 1, Append(stack, n + 1),
                 nodes \o <<Node("ERROR", top), Leaf("L_CURLY", n + 1, txt)>>,
                 errs \o <<Diag(pos, "expected an item")>>)
    ELSE IF tk.kind = "R_CURLY" THEN
        IF Len(stack) > 1
        THEN parse_tokens(text, toks, i + 1, pos + 1, Front(stack),
                 Append(nodes, Leaf("R_CURLY", top, txt)), errs)
        ELSE parse_tokens(text, toks, i + 1, pos + 1, stack,
                 nodes \o <<Node("ERROR", top), Leaf("R_CURLY", n + 1, txt)>>,
                 errs \o <<Diag(pos, "unmatched R_CURLY")>>)
    ELSE \* IDENT
        IF ctx = "NAMED_FIELD_DEF_LIST"
        THEN parse_tokens(text, toks, i + 1, pos + tk.len, stack,
                 nodes \o <<Node("NAMED_FIELD_DEF", top), Node("NAME", n + 1),
                            Leaf("IDENT", n + 2, txt)>>, errs)
        ELSE IF ctx = "ROOT"
        THEN parse_tokens(text, toks, i + 1, pos + tk.len, stack,
                 nodes \o <<Node("ERROR", top), Leaf("IDENT", n + 1, txt)>>,
                 errs \o <<Diag(pos, "expected an item")>>)
        ELSE parse_tokens(text, toks, i + 1, pos + tk.len, stack,
                 nodes \o <<Node("NAME_REF", top), Leaf("IDENT", n + 1, txt)>>, errs)

\* parser_impl::parse::<GreenBuilder>(text, &tokens) -> (green, errors)
parser_impl_parse(text, tokens) ==
    parse_tokens(text, tokens, 1, 0, <<1>>, <<Node("ROOT", 0)>>, <<>>)

(***************************************************************************)
(* Tree queries (algo.rs): smallest node covering a range.  The left end   *)
(* is the leaf at range.start (the right one of two leaves that meet       *)
(* there), the right end the leaf at range.end (the left one of two); the  *)
(* covering node is their common ancestor, the root when there is no leaf. *)
(***************************************************************************)
leaves_at(t, off) ==
    {i \in 1..Len(t) : /\ t[i].text # <<>>
                       /\ node_start(t, i) <= off
                       /\ off <= node_end(t, i)}

common_ancestor(t, l, r) ==
    LET ra == ancestors(t, r)
        shared == SelectSeq(ancestors(t, l), LAMBDA x : \E k \in 1..Len(ra) : ra[k] = x)
    IN  Head(shared)

find_covering_node(t, range) ==
    LET ls == leaves_at(t, range[1])
        rs == leaves_at(t, range[2])
    IN  IF ls = {} \/ rs = {} THEN 1
        ELSE common_ancestor(t,
                 CHOOSE l \in ls : \A x \in ls : x <= l,
                 CHOOSE r \in rs : \A x \in rs : r <= x)

(***************************************************************************)
(* lib.rs: the debug invariant checker.                                    *)
(***************************************************************************)
\* #[cfg(not(debug_assertions))]: returns at once
validate_block_structure_release(t) == TRUE

\* mutant: stack.pop().unwrap(), an R_CURLY with no open L_CURLY panics
RECURSIVE validate_walk_unwrap(_, _, _)
validate_walk_unwrap(t, i, stack) ==
    IF i > Len(t) THEN TRUE
    ELSE IF t[i].kind = "L_CURLY" THEN validate_walk_unwrap(t, i + 1, Append(stack, i))
    ELSE IF t[i].kind = "R_CURLY" THEN
        /\ stack # <<>>
        /\ t[i].parent = t[Last(stack)].parent
        /\ next_sibling(t, i) = 0 /\ prev_sibling(t, Last(stack)) = 0
        /\ validate_walk_unwrap(t, i + 1, Front(stack))
    ELSE validate_walk_unwrap(t, i + 1, stack)

validate_block_structure_unwrap(t) == validate_walk_unwrap(t, 1, <<>>)

\* mutant: the assert_eq! on the two parents is left out
RECURSIVE validate_walk_no_parent(_, _, _)
validate_walk_no_parent(t, i, stack) ==
    IF i > Len(t) THEN TRUE
    ELSE IF t[i].kind = "L_CURLY" THEN validate_walk_no_parent(t, i + 1, Append(stack, i))
    ELSE IF t[i].kind = "R_CURLY" /\ stack # <<>> THEN
        /\ next_sibling(t, i) = 0 /\ prev_sibling(t, Last(stack)) = 0
        /\ validate_walk_no_parent(t, i + 1, Front(stack))
    ELSE validate_walk_no_parent(t, i + 1, stack)

validate_block_structure_no_parent(t) == validate_walk_no_parent(t, 1, <<>>)

\* mutant: the assert! on the siblings outside the pair is left out
RECURSIVE validate_walk_no_floating(_, _, _)
validate_walk_no_floating(t, i, stack) ==
    IF i > Len(t) THEN TRUE
    ELSE IF t[i].kind = "L_CURLY" THEN validate_walk_no_floating(t, i + 1, Append(stack, i))
    ELSE IF t[i].kind = "R_CURLY" /\ stack # <<>> THEN
        /\ t[i].parent = t[Last(stack)].parent
        /\ validate_walk_no_floating(t, i + 1, Front(stack))
    ELSE validate_walk_no_floating(t, i + 1, stack)

validate_block_structure_no_floating(t) == validate_walk_no_floating(t, 1, <<>>)

\* #[cfg(debug_assertions)]: TRUE iff no assertion fires on the preorder walk
RECURSIVE validate_walk(_, _, _)
validate_walk(t, i, stack) ==
    IF i > Len(t) THEN TRUE
    ELSE IF t[i].kind = "L_CURLY" THEN validate_walk(t, i + 1, Append(stack, i))
    ELSE IF t[i].kind = "R_CURLY" /\ stack # <<>> THEN
        LET pair == Last(stack)
        IN  /\ t[i].parent = t[pair].parent
            /\ next_sibling(t, i) = 0 /\ prev_sibling(t, pair) = 0
            /\ validate_walk(t, i + 1, Front(stack))
    ELSE validate_walk(t, i + 1, stack)

validate_block_structure_debug(t) == validate_walk(t, 1, <<>>)

\* mutant: the cfg gate is missing, the walk runs in every build
validate_block_structure_ungated(dbg, t) == validate_block_structure_debug(t)

validate_block_structure(dbg, t) ==
    IF dbg THEN validate_block_structure_debug(t)
    ELSE validate_block_structure_release(t)

(***************************************************************************)
(* lib.rs: File.  A File value is [tag, root, green, errors]; root is the  *)
(* identity of the SyntaxRoot allocation the File owns.  A call that       *)
(* panics yields Panicked, an absent Option is NoneValue.                  *)
(***************************************************************************)
Panicked == [tag |-> "Panic"]
NoneValue == [tag |-> "None"]
IsFile(v) == v.tag = "File"

\* the allocator: an address not held by a live object
fresh_root(live) == CHOOSE n \in 1..(Cardinality(live) + 1) :
                        n \notin live /\ \A m \in 1..(n - 1) : m \in live

File_new(green, errs, id, dbg) ==
    IF validate_block_structure(dbg, green)
    THEN [tag |-> "File", root |-> id, green |-> green, errors |-> errs]
    ELSE Panicked

\* mutant: the last character of the text does not reach the lexer
File_parse_front(text, id, dbg) ==
    LET cut == IF text = <<>> THEN text ELSE Front(text)
        r == parser_impl_parse(cut, tokenize(cut))
    IN  File_new(r.green, r.errors, id, dbg)

File_parse(text, id, dbg) ==
    LET tokens == tokenize(text)
        r == parser_impl_parse(text, tokens)
    IN  File_new(r.green, r.errors, id, dbg)

\* File::syntax().text()
syntax_text(f) == node_text(f.green, 1)

\* mutant: the insert goes in but the deleted range is kept
replace_range_keeps_deleted(text, range, replace_with) ==
    SubSeq(text, 1, range[1]) \o replace_with \o SubSeq(text, range[1] + 1, Len(text))

replace_range(text, range, replace_with) ==
    SubSeq(text, 1, range[1]) \o replace_with \o SubSeq(text, range[2] + 1, Len(text))

\* mutant: the range is not rebased, the document's offsets are kept
range_sub_none(range, off) == range

\* TextRange - TextUnit
range_sub(range, off) == <<range[1] - off, range[2] - off>>

RECURSIVE balance_walk(_, _, _)
balance_walk(tokens, i, balance) ==
    IF i > Len(tokens) THEN balance = 0
    ELSE IF tokens[i].kind = "L_CURLY" THEN balance_walk(tokens, i + 1, balance + 1)
    ELSE IF tokens[i].kind = "R_CURLY"
         THEN IF balance = 0 THEN FALSE        \* checked_sub(1) is None
              ELSE balance_walk(tokens, i + 1, balance - 1)
    ELSE balance_walk(tokens, i + 1, balance)

\* mutant: the test of the first and the last token is left out
is_balanced_no_ends(tokens) == balance_walk(tokens, 1, 0)

is_balanced(tokens) ==
    IF \/ Len(tokens) = 0
       \/ tokens[1].kind # "L_CURLY"
       \/ Last(tokens).kind # "R_CURLY"
    THEN FALSE
    ELSE balance_walk(tokens, 1, 0)

reparser(kind) ==
    IF kind = "BLOCK" THEN "grammar::block"
    ELSE IF kind = "NAMED_FIELD_DEF_LIST" THEN "grammar::named_field_def_list"
    ELSE "None"

\* mutant: .last() for .next(), the outermost reparsable ancestor is taken
find_reparsable_node_outermost(t, range) ==
    LET node == find_covering_node(t, range)
        hits == SelectSeq(ancestors(t, node), LAMBDA x : reparser(t[x].kind) # "None")
    IN  IF hits = <<>> THEN [node |-> 0, reparser |-> "None"]
        ELSE [node |-> Last(hits), reparser |-> reparser(t[Last(hits)].kind)]

\* [node |-> 0] stands for None
find_reparsable_node(t, range) ==
    LET node == find_covering_node(t, range)
        hits == SelectSeq(ancestors(t, node), LAMBDA x : reparser(t[x].kind) # "None")
    IN  IF hits = <<>> THEN [node |-> 0, reparser |-> "None"]
        ELSE [node |-> Head(hits), reparser |-> reparser(t[Head(hits)].kind)]

\* mutant: the edit is applied to the text of the whole document
candidate_text_whole(t, node, e) ==
    replace_range(node_text(t, 1), e.delete, e.insert)

\* the candidate string of incremental_reparse (lines 81-85)
candidate_text(t, node, e) ==
    replace_range(node_text(t, node), range_sub(e.delete, node_start(t, node)), e.insert)

\* mutant: step 6 without the balance check.  The reparsable kind's entry
\* point is run over the candidate's tokens and the nodes it builds take the
\* place of the old subtree; everything outside the subtree is the old tree.
reparse_entry(kind, text, tokens) ==
    parse_tokens(text, tokens, 2, 1, <<1, 2>>,
        <<Node("ROOT", 0), Node(kind, 1), Leaf("L_CURLY", 2, SubSeq(text, 1, 1))>>,
        <<>>).green

splice(old, node, sub) ==
    LET last == subtree_end(old, node)
        k == Len(sub) - 1
        d == k - (last - node + 1)
    IN  [i \in 1..(Len(old) + d) |->
            IF i < node THEN old[i]
            ELSE IF i < node + k
                 THEN LET n == sub[i - node + 2]
                      IN  [n EXCEPT !.parent = IF n.parent = 1 THEN old[node].parent
                                               ELSE n.parent + node - 2]
            ELSE LET n == old[i - d]
                 IN  [n EXCEPT !.parent = IF n.parent > last THEN n.parent + d
                                          ELSE n.parent]]

incremental_reparse_unchecked(self, e) ==
    LET found == find_reparsable_node(self.green, e.delete)
    IN  IF found.node = 0 THEN NoneValue
        ELSE LET text == candidate_text(self.green, found.node, e)
                 tokens == tokenize(text)
             IN  IF tokens = <<>> \/ tokens[1].kind # "L_CURLY" THEN NoneValue
                 ELSE [tag |-> "File", root |-> 0, errors |-> self.errors,
                       green |-> splice(self.green, found.node,
                                    reparse_entry(self.green[found.node].kind, text, tokens))]

\* mutant: the last exit hands out the File with the reparsed subtree
\* spliced into the old tree
incremental_reparse_spliced(self, e) ==
    LET found == find_reparsable_node(self.green, e.delete)
    IN  IF found.node = 0 THEN NoneValue
        ELSE LET text == candidate_text(self.green, found.node, e)
                 tokens == tokenize(text)
             IN  IF ~is_balanced(tokens) THEN NoneValue
                 ELSE [tag |-> "File", root |-> 0, errors |-> self.errors,
                       green |-> splice(self.green, found.node,
                                    reparse_entry(self.green[found.node].kind, text, tokens))]

incremental_reparse(self, e) ==
    LET found == find_reparsable_node(self.green, e.delete)
    IN  IF found.node = 0 THEN NoneValue
        ELSE LET text == candidate_text(self.green, found.node, e)
                 tokens == tokenize(text)
             IN  IF ~is_balanced(tokens) THEN NoneValue
                 ELSE NoneValue

\* mutant: the receiver's own text is parsed again, the edit is not applied
full_reparse_unedited(self, e, id, dbg) ==
    File_parse(syntax_text(self), id, dbg)

full_reparse(self, e, id, dbg) ==
    LET text == replace_range(syntax_text(self), e.delete, e.insert)
    IN  File_parse(text, id, dbg)

\* mutant: no unwrap_or_else, the Option of the fast path is handed out
reparse_no_fallback(self, e, id, dbg) == incremental_reparse(self, e)

reparse(self, e, id, dbg) ==
    LET r == incremental_reparse(self, e)
    IN  IF r.tag # "None" THEN r ELSE full_reparse(self, e, id, dbg)

\* mutant: the root's own list is handed out, not a clone
errors_shared(self) == [alias |-> TRUE, items |-> self.errors]

\* File::errors(): a clone of the root's list (alias = FALSE: its own buffer)
errors(self) == [alias |-> FALSE, items |-> self.errors]

(***************************************************************************)
(* ast/generated.rs: the typed wrappers.  A wrapper value holds the node   *)
(* it was cast from; a union value holds the variant and the variant's     *)
(* struct value.  Every variant of a union wraps the struct of its name.   *)
(***************************************************************************)
\* the kind each struct's cast matches on
StructKind ==
    [ ArrayExpr |-> "ARRAY_EXPR", ArrayType |-> "ARRAY_TYPE", Attr |-> "ATTR",
      BinExpr |-> "BIN_EXPR", Block |-> "BLOCK", BlockExpr |-> "BLOCK_EXPR",
      BreakExpr |-> "BREAK_EXPR", CallExpr |-> "CALL_EXPR",
      CastExpr |-> "CAST_EXPR", ConstDef |-> "CONST_DEF",
      ContinueExpr |-> "CONTINUE_EXPR", DynTraitType |-> "DYN_TRAIT_TYPE",
      EnumDef |-> "ENUM_DEF", FieldExpr |-> "FIELD_EXPR", FnDef |-> "FN_DEF",
      FnPointerType |-> "FN_POINTER_TYPE", ForExpr |-> "FOR_EXPR",
      ForType |-> "FOR_TYPE", IfExpr |-> "IF_EXPR", ImplItem |-> "IMPL_ITEM",
      ImplTraitType |-> "IMPL_TRAIT_TYPE", IndexExpr |-> "INDEX_EXPR",
      Label |-> "LABEL", LambdaExpr |-> "LAMBDA_EXPR",
      LoopExpr |-> "LOOP_EXPR", MatchArm |-> "MATCH_ARM",
      MatchArmList |-> "MATCH_ARM_LIST", MatchExpr |-> "MATCH_EXPR",
      MatchGuard |-> "MATCH_GUARD", MethodCallExpr |-> "METHOD_CALL_EXPR",
      Module |-> "MODULE", Name |-> "NAME", NameRef |-> "NAME_REF",
      NamedField |-> "NAMED_FIELD", NamedFieldDef |-> "NAMED_FIELD_DEF",
      NamedFieldList |-> "NAMED_FIELD_LIST", NeverType |-> "NEVER_TYPE",
      ParenExpr |-> "PAREN_EXPR", ParenType |-> "PAREN_TYPE",
      PathExpr |-> "PATH_EXPR", PathType |-> "PATH_TYPE",
      PlaceholderType |-> "PLACEHOLDER_TYPE", PointerType |-> "POINTER_TYPE",
      PrefixExpr |-> "PREFIX_EXPR", RangeExpr |-> "RANGE_EXPR",
      RefExpr |-> "REF_EXPR", ReferenceType |-> "REFERENCE_TYPE",
      ReturnExpr |-> "RETURN_EXPR", Root |-> "ROOT",
      SliceType |-> "SLICE_TYPE", StaticDef |-> "STATIC_DEF",
      StructDef |-> "STRUCT_DEF", StructLit |-> "STRUCT_LIT",
      TokenTree |-> "TOKEN_TREE", TraitDef |-> "TRAIT_DEF",
      TryExpr |-> "TRY_EXPR", TupleExpr |-> "TUPLE_EXPR",
      TupleType |-> "TUPLE_TYPE", TypeDef |-> "TYPE_DEF",
      TypeParam |-> "TYPE_PARAM", TypeParamList |-> "TYPE_PARAM_LIST",
      WhereClause |-> "WHERE_CLAUSE", WhileExpr |-> "WHILE_EXPR" ]

\* the variants each enum declares, in declaration order
UnionVariants ==
    [ Expr |->
        <<"TupleExpr", "ArrayExpr", "ParenExpr", "PathExpr", "LambdaExpr",
          "IfExpr", "LoopExpr", "ForExpr", "WhileExpr", "ContinueExpr",
          "BreakExpr", "Label", "BlockExpr", "ReturnExpr", "MatchExpr",
          "MatchArmList", "MatchArm", "MatchGuard", "StructLit",
          "NamedFieldList", "NamedField", "CallExpr", "IndexExpr",
          "MethodCallExpr", "FieldExpr", "TryExpr", "CastExpr", "RefExpr",
          "PrefixExpr", "RangeExpr", "BinExpr">>,
      NominalDef |->
        <<"StructDef", "EnumDef">>,
      TypeRef |->
        <<"ParenType", "TupleType", "NeverType", "PathType", "PointerType",
          "ArrayType", "SliceType", "ReferenceType", "PlaceholderType",
          "FnPointerType", "ForType", "ImplTraitType", "DynTraitType">> ]

\* the arms <<kind, variant built>> of each union's cast, in match order
UnionArms ==
    [ Expr |->
        <<<<"TUPLE_EXPR", "TupleExpr">>, <<"ARRAY_EXPR", "ArrayExpr">>,
          <<"PAREN_EXPR", "ParenExpr">>, <<"PATH_EXPR", "PathExpr">>,
          <<"LAMBDA_EXPR", "LambdaExpr">>, <<"IF_EXPR", "IfExpr">>,
          <<"LOOP_EXPR", "LoopExpr">>, <<"FOR_EXPR", "ForExpr">>,
          <<"WHILE_EXPR", "WhileExpr">>, <<"CONTINUE_EXPR", "ContinueExpr">>,
          <<"BREAK_EXPR", "BreakExpr">>, <<"LABEL", "Label">>,
          <<"BLOCK_EXPR", "BlockExpr">>, <<"RETURN_EXPR", "ReturnExpr">>,
          <<"MATCH_EXPR", "MatchExpr">>, <<"MATCH_ARM_LIST", "MatchArmList">>,
          <<"MATCH_ARM", "MatchArm">>, <<"MATCH_GUARD", "MatchGuard">>,
          <<"STRUCT_LIT", "StructLit">>,
          <<"NAMED_FIELD_LIST", "NamedFieldList">>,
          <<"NAMED_FIELD", "NamedField">>, <<"CALL_EXPR", "CallExpr">>,
          <<"INDEX_EXPR", "IndexExpr">>,
          <<"METHOD_CALL_EXPR", "MethodCallExpr">>,
          <<"FIELD_EXPR", "FieldExpr">>, <<"TRY_EXPR", "TryExpr">>,
          <<"CAST_EXPR", "CastExpr">>, <<"REF_EXPR", "RefExpr">>,
          <<"PREFIX_EXPR", "PrefixExpr">>, <<"RANGE_EXPR", "RangeExpr">>,
          <<"BIN_EXPR", "BinExpr">>>>,
      NominalDef |->
        <<<<"STRUCT_DEF", "StructDef">>, <<"ENUM_DEF", "EnumDef">>>>,
      TypeRef |->
        <<<<"PAREN_TYPE", "ParenType">>, <<"TUPLE_TYPE", "TupleType">>,
          <<"NEVER_TYPE", "NeverType">>, <<"PATH_TYPE", "PathType">>,
          <<"POINTER_TYPE", "PointerType">>, <<"ARRAY_TYPE", "ArrayType">>,
          <<"SLICE_TYPE", "SliceType">>, <<"REFERENCE_TYPE", "ReferenceType">>,
          <<"PLACEHOLDER_TYPE", "PlaceholderType">>,
          <<"FN_POINTER_TYPE", "FnPointerType">>, <<"FOR_TYPE", "ForType">>,
          <<"IMPL_TRAIT_TYPE", "ImplTraitType">>,
          <<"DYN_TRAIT_TYPE", "DynTraitType">>>> ]

Structs == DOMAIN StructKind
Unions == DOMAIN UnionArms
Wrappers == Structs \cup Unions

\* kinds no wrapper matches: tokens and the error node
OtherKinds == {"L_CURLY", "R_CURLY", "IDENT", "SEMI", "FN_KW", "STRUCT_KW", "ERROR"}
AllKinds == {StructKind[w] : w \in Structs} \cup OtherKinds

SomeNode(w, n) == [tag |-> "Some", wrapper |-> w, syntax |-> n]

cast_struct(K, t, n) ==
    IF t[n].kind = StructKind[K] THEN SomeNode(K, n) ELSE NoneValue

\* mutant: the last arm of the match is missing
cast_union_missing_arm(U, t, n) ==
    LET hits == SelectSeq(Front(UnionArms[U]), LAMBDA a : a[1] = t[n].kind)
    IN  IF hits = <<>> THEN NoneValue
        ELSE [tag |-> "Some", wrapper |-> U, variant |-> Head(hits)[2],
              inner |-> SomeNode(Head(hits)[2], n)]

\* mutant: every arm builds the variant of the first arm
cast_union_first_variant(U, t, n) ==
    LET hits == SelectSeq(UnionArms[U], LAMBDA a : a[1] = t[n].kind)
    IN  IF hits = <<>> THEN NoneValue
        ELSE [tag |-> "Some", wrapper |-> U, variant |-> UnionArms[U][1][2],
              inner |-> SomeNode(UnionArms[U][1][2], n)]

cast_union(U, t, n) ==
    LET hits == SelectSeq(UnionArms[U], LAMBDA a : a[1] = t[n].kind)
    IN  IF hits = <<>> THEN NoneValue
        ELSE [tag |-> "Some", wrapper |-> U, variant |-> Head(hits)[2],
              inner |-> SomeNode(Head(hits)[2], n)]

\* K::cast(node)
cast(K, t, n) == IF K \in Unions THEN cast_union(K, t, n) ELSE cast_struct(K, t, n)

\* AstNode::syntax(self): a union matches on its variant and asks the inner value
syntax(v) == IF v.wrapper \in Unions THEN v.inner.syntax ELSE v.syntax

(***************************************************************************)
(* ast/mod.rs: capability traits and the child scans behind them.          *)
(***************************************************************************)
NameOwner ==
    { "ConstDef", "EnumDef", "FnDef", "Module", "NamedFieldDef", "NominalDef",
      "StaticDef", "StructDef", "TraitDef", "TypeDef", "TypeParam" }
TypeParamsOwner ==
    { "ConstDef", "EnumDef", "FnDef", "NominalDef", "StaticDef", "StructDef",
      "TypeDef" }
AttrsOwner ==
    { "ConstDef", "EnumDef", "FnDef", "Module", "NamedFieldDef", "NominalDef",
      "StaticDef", "StructDef", "TraitDef", "TypeDef" }

\* mutant: the scan goes through all descendants, not the direct children
children_of_descendants(t, parent, C) ==
    LET p == syntax(parent)
        all == SortedSeq((p + 1)..subtree_end(t, p))
        hits == SelectSeq(all, LAMBDA c : cast(C, t, c) # NoneValue)
    IN  [i \in 1..Len(hits) |-> cast(C, t, hits[i])]

\* children::<P, C>(parent): the direct children that cast to C, in order
children(t, parent, C) ==
    LET hits == SelectSeq(node_children(t, syntax(parent)),
                          LAMBDA c : cast(C, t, c) # NoneValue)
    IN  [i \in 1..Len(hits) |-> cast(C, t, hits[i])]

\* mutant: .last() for .next()
child_opt_last(t, parent, C) ==
    LET cs == children(t, parent, C)
    IN  IF cs = <<>> THEN NoneValue ELSE Last(cs)

\* child_opt::<P, C>(parent) = children(parent).next()
child_opt(t, parent, C) ==
    LET cs == children(t, parent, C)
    IN  IF cs = <<>> THEN NoneValue ELSE Head(cs)

name(t, self) == child_opt(t, self, "Name")
type_param_list(t, self) == child_opt(t, self, "TypeParamList")
where_clause(t, self) == child_opt(t, self, "WhereClause")
attrs(t, self) == children(t, self, "Attr")

\* generated.rs: the accessors of single wrappers
Attr_value(t, self) == child_opt(t, self, "TokenTree")
Root_functions(t, self) == children(t, self, "FnDef")
StructDef_fields(t, self) == children(t, self, "NamedFieldDef")

\* mod.rs, impl Attr.  collect_tuple() is Some for exactly as many items as
\* the tuple has; leaf_text() is None on a node that is no leaf, and unwrap()
\* of None panics.
leaf_text(t, n) == IF t[n].text # <<>> /\ is_leaf(t, n) THEN t[n].text ELSE NoneValue

SomeAtom(text) == IF text = NoneValue THEN Panicked ELSE [tag |-> "Some", text |-> text]
SomeCall(text, args) ==
    IF text = NoneValue THEN Panicked ELSE [tag |-> "Some", text |-> text, args |-> args]

\* mutant: the kind of the first child is tested, not of the second
as_atom_first(t, self) ==
    LET tt == Attr_value(t, self)
    IN  IF tt = NoneValue THEN NoneValue
        ELSE LET cs == node_children(t, syntax(tt))
             IN  IF Len(cs) # 3 THEN NoneValue
                 ELSE IF t[cs[1]].kind = "IDENT" THEN SomeAtom(leaf_text(t, cs[1]))
                 ELSE NoneValue

as_atom(t, self) ==
    LET tt == Attr_value(t, self)
    IN  IF tt = NoneValue THEN NoneValue
        ELSE LET cs == node_children(t, syntax(tt))
             IN  IF Len(cs) # 3 THEN NoneValue
                 ELSE IF t[cs[2]].kind = "IDENT" THEN SomeAtom(leaf_text(t, cs[2]))
                 ELSE NoneValue

as_call(t, self) ==
    LET tt == Attr_value(t, self)
    IN  IF tt = NoneValue THEN NoneValue
        ELSE LET cs == node_children(t, syntax(tt))
             IN  IF Len(cs) # 4 THEN NoneValue
                 ELSE LET args == cast("TokenTree", t, cs[3])
                      IN  IF args = NoneValue THEN NoneValue
                          ELSE IF t[cs[2]].kind = "IDENT"
                               THEN SomeCall(leaf_text(t, cs[2]), args)
                          ELSE NoneValue

\* mod.rs, impl ImplItem: the first two direct children that cast to TypeRef
target(t, self) ==
    LET types == children(t, self, "TypeRef")
        first == IF Len(types) >= 1 THEN types[1] ELSE NoneValue
        second == IF Len(types) >= 2 THEN types[2] ELSE NoneValue
    IN  <<first, second>>

\* mutant: the arm is (Some(t), _), the first type is taken whenever there is one
target_type_first(t, self) ==
    LET p == target(t, self)
    IN  IF p[1] # NoneValue THEN p[1] ELSE NoneValue

\* (Some(t), None) | (_, Some(t)) => Some(t), _ => None
target_type(t, self) ==
    LET p == target(t, self)
    IN  IF p[1] # NoneValue /\ p[2] = NoneValue THEN p[1]
        ELSE IF p[2] # NoneValue THEN p[2]
        ELSE NoneValue

\* (Some(t), Some(_)) => Some(t), _ => None
target_trait(t, self) ==
    LET p == target(t, self)
    IN  IF p[1] # NoneValue /\ p[2] # NoneValue THEN p[1] ELSE NoneValue



(***************************************************************************)
(* The state machine: a host that parses a text, reparses the File it      *)
(* holds with single edits, reads its diagnostics and keeps or drops the   *)
(* File a reparse returned.                                                *)
(***************************************************************************)
NoEdit == [tag |-> "none"]
NoVec == [tag |-> "none"]
NoCall == [tag |-> "none"]
AtomEdit(range, insert) == [tag |-> "edit", delete |-> range, insert |-> insert]

live_roots == {v.root : v \in {x \in {file, result} : IsFile(x)}}

\* no File yet, no call made
Idle ==
    /\ op = "init"
    /\ file = NoneValue
    /\ orig = NoneValue
    /\ edit = NoEdit
    /\ result = NoneValue
    /\ returned = NoVec
    /\ firstErrs = NoVec
    /\ mutated = FALSE
    /\ acc = NoCall

Init ==
    /\ debug \in BOOLEAN
    /\ tree = <<>>
    /\ Idle

\* let file = File::parse(text);   (acc keeps the argument of the call)
Parse ==
    \E text \in Texts :
        /\ op = "init"
        /\ file' = File_parse(text, fresh_root(live_roots), debug)
        /\ orig' = file'
        /\ acc' = [tag |-> "parse", text |-> text]
        /\ op' = "parse"
        /\ UNCHANGED <<debug, edit, result, returned, firstErrs, mutated, tree>>

\* mutant: the edit is applied to the receiver in place
ReparseInPlace ==
    /\ IsFile(file)
    /\ result = NoneValue
    /\ \E b \in 0..Len(syntax_text(file)) : \E a \in 0..b : \E ins \in Inserts :
        /\ edit' = AtomEdit(<<a, b>>, ins)
        /\ result' = reparse(file, edit', file.root, debug)
    /\ file' = result'
    /\ acc' = NoCall
    /\ op' = "reparse"
    /\ UNCHANGED <<debug, orig, returned, firstErrs, mutated, tree>>

\* let new = file.reparse(&edit);   (the delete range lies inside the text;
\* edit and result keep the call, the record of the parse call goes)
Reparse ==
    /\ IsFile(file)
    /\ result = NoneValue
    /\ \E b \in 0..Len(syntax_text(file)) : \E a \in 0..b : \E ins \in Inserts :
        /\ edit' = AtomEdit(<<a, b>>, ins)
        /\ result' = reparse(file, edit', fresh_root(live_roots), debug)
    /\ acc' = NoCall
    /\ op' = "reparse"
    /\ UNCHANGED <<debug, file, orig, returned, firstErrs, mutated, tree>>

\* drop(new);   (the host lets the returned File go and keeps the receiver)
Drop ==
    /\ op = "reparse"
    /\ result' = NoneValue
    /\ edit' = NoEdit
    /\ op' = "drop"
    /\ UNCHANGED <<debug, file, orig, returned, firstErrs, mutated, avars>>

\* file = new;   (the host drops the receiver and goes on with the new File;
\* a File longer than MaxLen is not kept, which bounds the texts)
Adopt ==
    /\ op = "reparse"
    /\ IsFile(result)
    /\ Len(syntax_text(result)) <= MaxLen
    /\ file' = result
    /\ orig' = result
    /\ result' = NoneValue
    /\ edit' = NoEdit
    /\ op' = "adopt"
    /\ UNCHANGED <<debug, returned, firstErrs, mutated, avars>>

\* let v = file.errors();
Errors ==
    /\ IsFile(file)
    /\ returned' = [tag |-> "vec"] @@ errors(file)
    /\ firstErrs' = IF firstErrs = NoVec
                    THEN [tag |-> "vec", items |-> returned'.items]
                    ELSE firstErrs
    /\ op' = "errors"
    /\ UNCHANGED <<debug, file, orig, edit, result, mutated, avars>>

\* v.pop() / v.clear() / v.push(..) on the Vec errors() handed out; when the
\* Vec shares the root's buffer the root's list changes with it
MutateReturned ==
    /\ returned # NoVec
    /\ \E items \in {SubSeq(returned.items, 1, n) : n \in {0, Len(returned.items) - 1} \cap Nat}
                    \cup {Append(returned.items, Diag(0, "pushed by the caller")) :
                              n \in {Len(returned.items)} \cap 0..(MaxVec - 1)} :
        /\ items # returned.items
        /\ returned' = [returned EXCEPT !.items = items]
        /\ file' = IF returned.alias THEN [file EXCEPT !.errors = items] ELSE file
    /\ mutated' = TRUE
    /\ op' = "mutate"
    /\ UNCHANGED <<debug, orig, edit, result, firstErrs, avars>>

Next == Parse \/ Reparse \/ Drop \/ Adopt

Spec == Init /\ [][Next]_vars

\* one File::parse and the File::reparse calls on the File it returned
NextReparse == Parse \/ Reparse

SpecReparse == Init /\ [][NextReparse]_vars

\* File::parse alone, on every text
SpecParse == Init /\ [][Parse]_vars

NextErrors == Parse \/ Errors \/ MutateReturned

SpecErrors == Init /\ [][NextErrors]_vars

(***************************************************************************)
(* Casts: a two-node tree, a ROOT and one child of any kind, and a cast of *)
(* either node to any wrapper.                                             *)
(***************************************************************************)
InitCast ==
    /\ debug = FALSE
    /\ tree \in {<<Node("ROOT", 0), Node(k, 1)>> : k \in AllKinds}
    /\ Idle

\* K::cast(node)
Cast ==
    /\ \E K \in Wrappers : \E n \in 1..Len(tree) :
          acc' = [tag |-> "cast", wrapper |-> K, node |-> n, value |-> cast(K, tree, n)]
    /\ op' = "cast"
    /\ UNCHANGED <<fvars, tree>>

SpecCast == InitCast /\ [][Cast]_vars

(***************************************************************************)
(* Capability accessors: a tree grown node by node (the builder contract:  *)
(* finish_node up to the chosen open ancestor, then start_node or token),  *)
(* and a capability accessor called on a node through a wrapper that       *)
(* implements the capability.                                              *)
(***************************************************************************)
OwnerKinds == {StructKind[w] : w \in (NameOwner \cup TypeParamsOwner \cup AttrsOwner) \ Unions}
ChildKinds == {"NAME", "TYPE_PARAM_LIST", "WHERE_CLAUSE", "ATTR"}
ChildTokens == {"IDENT"}

InitAst ==
    /\ debug = FALSE
    /\ tree \in {<<Node(k, 0)>> : k \in OwnerKinds}
    /\ Idle

\* the open nodes a new node can go under: the composite nodes on the
\* path from the last node to the root
open_nodes(t) == {i \in 1..Len(t) : t[i].text = <<>> /\ subtree_end(t, i) = Len(t)
                                    /\ t[i].kind \notin ChildTokens}

AddNode ==
    /\ op \in {"init", "build"}
    /\ Len(tree) < MaxNodes
    /\ \E p \in open_nodes(tree) :
         \/ \E k \in ChildKinds : tree' = Append(tree, Node(k, p))
         \/ \E k \in ChildTokens : tree' = Append(tree, Leaf(k, p, <<"x">>))
    /\ op' = "build"
    /\ UNCHANGED <<fvars, acc>>

Accessor(fn, owners) ==
    /\ \E W \in owners : \E n \in 1..Len(tree) :
         LET self == cast(W, tree, n)
         IN  /\ self # NoneValue
             /\ acc' = [tag |-> fn, wrapper |-> W, node |-> n,
                        value |-> CASE fn = "name" -> name(tree, self)
                                    [] fn = "type_param_list" -> type_param_list(tree, self)
                                    [] fn = "where_clause" -> where_clause(tree, self)
                                    [] fn = "attrs" -> attrs(tree, self)]
    /\ op' = fn
    /\ UNCHANGED <<fvars, tree>>

CallName == Accessor("name", NameOwner)
CallTypeParamList == Accessor("type_param_list", TypeParamsOwner)
CallWhereClause == Accessor("where_clause", TypeParamsOwner)
CallAttrs == Accessor("attrs", AttrsOwner)

NextAst == AddNode \/ CallName \/ CallTypeParamList \/ CallWhereClause \/ CallAttrs

SpecAst == InitAst /\ [][NextAst]_vars

(***************************************************************************)
(* Structural accessors: a tree under a ROOT grown node by node from item, *)
(* field, attribute and token tree nodes, nested in any way, and an        *)
(* accessor called on a node through its wrapper.                          *)
(***************************************************************************)
MaxItems == 5

ItemKinds == {"FN_DEF", "STRUCT_DEF", "NAMED_FIELD_DEF", "ATTR", "TOKEN_TREE"}

InitItems ==
    /\ debug = FALSE
    /\ tree = <<Node("ROOT", 0)>>
    /\ Idle

AddItem ==
    /\ op \in {"init", "build"}
    /\ Len(tree) < MaxItems
    /\ \E p \in open_nodes(tree) : \E k \in ItemKinds : tree' = Append(tree, Node(k, p))
    /\ op' = "build"
    /\ UNCHANGED <<fvars, acc>>

ItemAccessor(fn, W) ==
    /\ op = "build"
    /\ \E n \in 1..Len(tree) :
         LET self == cast(W, tree, n)
         IN  /\ self # NoneValue
             /\ acc' = [tag |-> fn, wrapper |-> W, node |-> n,
                        value |-> CASE fn = "value" -> Attr_value(tree, self)
                                    [] fn = "functions" -> Root_functions(tree, self)
                                    [] fn = "fields" -> StructDef_fields(tree, self)]
    /\ op' = fn
    /\ UNCHANGED <<fvars, tree>>

CallValue == ItemAccessor("value", "Attr")
CallFunctions == ItemAccessor("functions", "Root")
CallFields == ItemAccessor("fields", "StructDef")

NextItems == AddItem \/ CallValue \/ CallFunctions \/ CallFields

SpecItems == InitItems /\ [][NextItems]_vars

(***************************************************************************)
(* ImplItem: a tree under a ROOT grown from IMPL_ITEM nodes, type nodes    *)
(* and nodes that are no types, nested in any way, and target_type or      *)
(* target_trait called on an IMPL_ITEM.                                    *)
(***************************************************************************)
MaxImpl == 5

ImplKinds == {"IMPL_ITEM", "PATH_TYPE", "REFERENCE_TYPE", "TYPE_PARAM_LIST"}

InitImpl ==
    /\ debug = FALSE
    /\ tree = <<Node("ROOT", 0)>>
    /\ Idle

AddImplNode ==
    /\ op \in {"init", "build"}
    /\ Len(tree) < MaxImpl
    /\ \E p \in open_nodes(tree) : \E k \in ImplKinds : tree' = Append(tree, Node(k, p))
    /\ op' = "build"
    /\ UNCHANGED <<fvars, acc>>

ImplAccessor(fn) ==
    /\ op = "build"
    /\ \E n \in 1..Len(tree) :
         LET self == cast("ImplItem", tree, n)
         IN  /\ self # NoneValue
             /\ acc' = [tag |-> fn, wrapper |-> "ImplItem", node |-> n,
                        value |-> CASE fn = "target_type" -> target_type(tree, self)
                                    [] fn = "target_trait" -> target_trait(tree, self)]
    /\ op' = fn
    /\ UNCHANGED <<fvars, tree>>

CallTargetType == ImplAccessor("target_type")
CallTargetTrait == ImplAccessor("target_trait")

NextImpl == AddImplNode \/ CallTargetType \/ CallTargetTrait

SpecImpl == InitImpl /\ [][NextImpl]_vars

(***************************************************************************)
(* Attr: the subtree of an ATTR node grown from TOKEN_TREE nodes and       *)
(* IDENT and brace tokens, nested in any way, and as_atom or as_call       *)
(* called on the ATTR.                                                     *)
(***************************************************************************)
MaxAttr == 6

AttrNodes == {"TOKEN_TREE"}
AttrTokens == {"IDENT", "L_CURLY"}

attr_token_text(k) == IF k = "IDENT" THEN <<"f", "s">> ELSE <<"{">>

InitAttr ==
    /\ debug = FALSE
    /\ tree = <<Node("ATTR", 0)>>
    /\ Idle

AddAttrNode ==
    /\ op \in {"init", "build"}
    /\ Len(tree) < MaxAttr
    /\ \E p \in open_nodes(tree) :
         \/ \E k \in AttrNodes : tree' = Append(tree, Node(k, p))
         \/ \E k \in AttrTokens : tree' = Append(tree, Leaf(k, p, attr_token_text(k)))
    /\ op' = "build"
    /\ UNCHANGED <<fvars, acc>>

AttrAccessor(fn) ==
    /\ op \in {"init", "build"}
    /\ \E n \in 1..Len(tree) :
         LET self == cast("Attr", tree, n)
         IN  /\ self # NoneValue
             /\ acc' = [tag |-> fn, wrapper |-> "Attr", node |-> n,
                        value |-> CASE fn = "as_atom" -> as_atom(tree, self)
                                    [] fn = "as_call" -> as_call(tree, self)]
    /\ op' = fn
    /\ UNCHANGED <<fvars, tree>>

CallAsAtom == AttrAccessor("as_atom")
CallAsCall == AttrAccessor("as_call")

NextAttr == AddAttrNode \/ CallAsAtom \/ CallAsCall

SpecAttr == InitAttr /\ [][NextAttr]_vars

(***************************************************************************)
(* AtomEdit constructors: each is called with every range inside a text of *)
(* MaxLen characters and every insert text.                                *)
(***************************************************************************)
\* TextRange::offset_len(offset, len)
offset_len(offset, len) == <<offset, offset + len>>

\* String::new()
String_new == <<>>

AtomEdit_replace(range, replace_with) == AtomEdit(range, replace_with)

AtomEdit_delete(range) == AtomEdit_replace(range, String_new)

\* mutant: the range spans the length of the inserted text
AtomEdit_insert_spanning(offset, text) ==
    AtomEdit_replace(offset_len(offset, Len(text)), text)

AtomEdit_insert(offset, text) == AtomEdit_replace(offset_len(offset, 0), text)

Ranges == {<<a, b>> : a \in 0..MaxLen, b \in 0..MaxLen} \cap {r \in Nat \X Nat : r[1] <= r[2]}

CallReplace ==
    /\ op = "init"
    /\ \E r \in Ranges : \E t \in Texts :
         acc' = [tag |-> "replace", range |-> r, text |-> t, value |-> AtomEdit_replace(r, t)]
    /\ op' = "replace"
    /\ UNCHANGED <<fvars, tree>>

CallDelete ==
    /\ op = "init"
    /\ \E r \in Ranges :
         acc' = [tag |-> "delete", range |-> r, value |-> AtomEdit_delete(r)]
    /\ op' = "delete_range"
    /\ UNCHANGED <<fvars, tree>>

CallInsert ==
    /\ op = "init"
    /\ \E o \in 0..MaxLen : \E t \in Texts :
         acc' = [tag |-> "insert", offset |-> o, text |-> t, value |-> AtomEdit_insert(o, t)]
    /\ op' = "insert"
    /\ UNCHANGED <<fvars, tree>>

NextEdit == CallReplace \/ CallDelete \/ CallInsert

SpecEdit == Init /\ [][NextEdit]_vars

(***************************************************************************)
(* is_balanced: called with every token list of at most MaxTokens tokens   *)
(* of the kinds L_CURLY, R_CURLY and IDENT.                                *)
(***************************************************************************)
MaxTokens == 5

TokenKinds == {"L_CURLY", "R_CURLY", "IDENT"}
TokenLists == SeqsUpTo({[kind |-> k, len |-> 1] : k \in TokenKinds}, MaxTokens)

CallIsBalanced ==
    /\ op = "init"
    /\ \E tokens \in TokenLists :
         acc' = [tag |-> "is_balanced", tokens |-> tokens, value |-> is_balanced(tokens)]
    /\ op' = "is_balanced"
    /\ UNCHANGED <<fvars, tree>>

SpecBalance == Init /\ [][CallIsBalanced]_vars

(***************************************************************************)
(* The helpers of reparse on a parsed File: the File of every text of at   *)
(* most MaxText characters, a range inside its text, an insert string.     *)
(***************************************************************************)
MaxText == 4

InitParsed ==
    /\ debug = FALSE
    /\ tree = <<>>
    /\ op = "init"
    /\ file \in {File_parse(text, 1, FALSE) : text \in SeqsUpTo(Chars, MaxText)}
    /\ orig = file
    /\ edit = NoEdit
    /\ result = NoneValue
    /\ returned = NoVec
    /\ firstErrs = NoVec
    /\ mutated = FALSE
    /\ acc = NoCall

\* find_reparsable_node(file.syntax(), range)
CallFindReparsableNode ==
    /\ op = "init"
    /\ \E b \in 0..Len(syntax_text(file)) : \E a \in 0..b :
         acc' = [tag |-> "find", range |-> <<a, b>>,
                 value |-> find_reparsable_node(file.green, <<a, b>>)]
    /\ op' = "find_reparsable_node"
    /\ UNCHANGED <<fvars, tree>>

SpecFind == InitParsed /\ [][CallFindReparsableNode]_vars

\* what TextUnit subtraction and String::replace_range require of a range:
\* no underflow, start <= end, end inside the text (they panic otherwise)
range_in_text(range, text) ==
    0 <= range[1] /\ range[1] <= range[2] /\ range[2] <= Len(text)

\* file.incremental_reparse(&edit); acc keeps the node found, the rebased
\* range and the candidate string built for it (the locals node and text)
CallIncrementalReparse ==
    /\ op = "init"
    /\ \E b \in 0..Len(syntax_text(file)) : \E a \in 0..b : \E ins \in Inserts :
         LET e == AtomEdit(<<a, b>>, ins)
             found == find_reparsable_node(file.green, e.delete)
             range == IF found.node = 0 THEN <<0, 0>>
                      ELSE range_sub(e.delete, node_start(file.green, found.node))
             fits == found.node = 0
                       \/ range_in_text(range, node_text(file.green, found.node))
         IN  /\ edit' = e
             /\ acc' = [tag |-> "incremental_reparse",
                        node |-> found.node,
                        range |-> range,
                        text |-> IF found.node = 0 \/ ~fits THEN <<>>
                                 ELSE candidate_text(file.green, found.node, e),
                        value |-> IF fits THEN incremental_reparse(file, e)
                                  ELSE Panicked]
    /\ op' = "incremental_reparse"
    /\ UNCHANGED <<debug, file, orig, result, returned, firstErrs, mutated, tree>>

SpecIncremental == InitParsed /\ [][CallIncrementalReparse]_vars

(***************************************************************************)
(* Brace structure: a green tree handed to File::new by a builder, with    *)
(* BLOCK nodes and brace tokens placed anywhere the builder contract       *)
(* allows, so that paired, unpaired and floating braces all occur; one     *)
(* brace may be taken out of the finished tree before it is checked.       *)
(***************************************************************************)
MaxTree == 6

BraceNodes == {"BLOCK"}
BraceTokens == {"L_CURLY", "R_CURLY"}

token_text(k) == IF k = "L_CURLY" THEN <<"{">> ELSE <<"}">>

InitBlock ==
    /\ debug \in BOOLEAN
    /\ tree = <<Node("ROOT", 0)>>
    /\ Idle

\* start_node(BLOCK) or token(L_CURLY / R_CURLY) under an open node
BuildNode ==
    /\ op \in {"init", "build"}
    /\ Len(tree) < MaxTree
    /\ \E p \in open_nodes(tree) :
         \/ \E k \in BraceNodes : tree' = Append(tree, Node(k, p))
         \/ \E k \in BraceTokens : tree' = Append(tree, Leaf(k, p, token_text(k)))
    /\ op' = "build"
    /\ UNCHANGED <<fvars, acc>>

\* the tree without leaf i
remove_leaf(t, i) ==
    [j \in 1..(Len(t) - 1) |->
        LET n == IF j < i THEN t[j] ELSE t[j + 1]
        IN  [n EXCEPT !.parent = IF @ > i THEN @ - 1 ELSE @]]

\* one brace token is deleted from the finished tree
DeleteBrace ==
    /\ op = "build"
    /\ \E i \in 1..Len(tree) :
         /\ tree[i].kind \in BraceTokens
         /\ tree' = remove_leaf(tree, i)
         /\ acc' = [tag |-> "deleted", before |-> tree, node |-> i]
    /\ op' = "delete"
    /\ UNCHANGED fvars

\* validate_block_structure(root)
Validate ==
    /\ op \in {"build", "delete"}
    /\ acc' = [tag |-> "validate",
               before |-> IF op = "delete" THEN acc.before ELSE tree,
               node |-> IF op = "delete" THEN acc.node ELSE 0,
               value |-> IF validate_block_structure(debug, tree) THEN "ok" ELSE "panic"]
    /\ op' = "validate"
    /\ UNCHANGED <<fvars, tree>>

\* File::new(green, errors)
NewFile ==
    /\ op \in {"build", "delete"}
    /\ result' = File_new(tree, <<>>, fresh_root(live_roots), debug)
    /\ op' = "new"
    /\ UNCHANGED <<debug, file, orig, edit, returned, firstErrs, mutated, avars>>

NextBlock == BuildNode \/ DeleteBrace \/ Validate \/ NewFile

SpecBlock == InitBlock /\ [][NextBlock]_vars

(***************************************************************************)
(* Properties of File::parse and File::reparse.                            *)
(***************************************************************************)
\* the edit as a string operation on T, position by position
Spliced(T, e) ==
    LET a == e.delete[1]
        b == e.delete[2]
        n == Len(e.insert)
    IN  [i \in 1..(Len(T) - (b - a) + n) |->
            IF i <= a THEN T[i]
            ELSE IF i <= a + n THEN e.insert[i - a]
            ELSE T[i - n + (b - a)]]

\* the full parse of the whole edited text
FullParseOfEdited == parser_impl_parse(Spliced(syntax_text(orig), edit),
                                       tokenize(Spliced(syntax_text(orig), edit)))

\* the exit of incremental_reparse the last call took
Found == find_reparsable_node(orig.green, edit.delete)
CandidateBalanced == is_balanced(tokenize(candidate_text(orig.green, Found.node, edit)))

\* C1 (edit correctness): the text of the File a reparse returns is the
\* receiver's text with the delete range replaced by the insert string,
\* whatever node the edit falls in and whatever the balance check says.
EditCorrectness ==
    op = "reparse" =>
        /\ IsFile(result)
        /\ syntax_text(result) = Spliced(syntax_text(orig), edit)

\* an edit inside a BLOCK whose candidate is balanced, and which changed the text
EditCorrectnessWitness ==
    /\ op = "reparse"
    /\ IsFile(result)
    /\ Found.node # 0
    /\ orig.green[Found.node].kind = "BLOCK"
    /\ CandidateBalanced
    /\ edit.delete[1] < edit.delete[2]
    /\ edit.insert # <<>>
    /\ syntax_text(result) # syntax_text(orig)

\* C2 (receiver untouched): whatever reparse calls were made on it, the
\* receiver is the File it was when it was created (tree, text, diagnostics),
\* and the File a call returns is another object than the receiver.
ReceiverUnchanged ==
    /\ IsFile(file) => file = orig
    /\ op = "reparse" => /\ IsFile(result)
                         /\ result.root # file.root

\* a second call on the same receiver returned a File with another text
ReceiverUnchangedWitness ==
    /\ op = "reparse"
    /\ IsFile(result)
    /\ file = orig
    /\ file.root = 2
    /\ syntax_text(result) # syntax_text(file)
    /\ result.errors # file.errors

\* C3 (fail closed): when no reparsable ancestor exists or the candidate's
\* tokens are not one balanced brace-delimited unit, the File returned is the
\* full parse of the whole edited text: its tree and its diagnostics.
FailClosed ==
    (op = "reparse" /\ (Found.node = 0 \/ ~CandidateBalanced)) =>
        /\ IsFile(result)
        /\ result.green = FullParseOfEdited.green
        /\ result.errors = FullParseOfEdited.errors

\* a reparsable node was found and its candidate has an unmatched R_CURLY
FailClosedWitness ==
    /\ op = "reparse"
    /\ IsFile(result)
    /\ Found.node # 0
    /\ ~CandidateBalanced
    /\ LET toks == tokenize(candidate_text(orig.green, Found.node, edit))
       IN  toks # <<>> /\ toks[1].kind = "L_CURLY" /\ Last(toks).kind = "R_CURLY"

\* C4 (fast/slow equivalence): for an edit confined inside a reparsable
\* region the preorder kinds of the returned tree are those of the full parse
\* of the final text.
FastSlowEquivalence ==
    (op = "reparse" /\ Found.node # 0) =>
        /\ IsFile(result)
        /\ kinds_preorder(result.green) = kinds_preorder(FullParseOfEdited.green)

\* an edit inside a NAMED_FIELD_DEF_LIST that changed the kind sequence
FastSlowEquivalenceWitness ==
    /\ op = "reparse"
    /\ IsFile(result)
    /\ Found.node # 0
    /\ orig.green[Found.node].kind = "NAMED_FIELD_DEF_LIST"
    /\ CandidateBalanced
    /\ kinds_preorder(result.green) # kinds_preorder(orig.green)

\* C5 (infeasibility is never visible): every reparse call with an in-bounds
\* edit returns a File, never the None of incremental_reparse, never a panic.
ReparseAlwaysFile ==
    op = "reparse" => IsFile(result)

\* the three exits of incremental_reparse, here the last one (balanced)
ReparseAlwaysFileWitness ==
    /\ op = "reparse"
    /\ IsFile(result)
    /\ incremental_reparse(orig, edit) = NoneValue
    /\ Found.node # 0
    /\ CandidateBalanced
    /\ debug

\* C9 (parse never fails): File::parse returns a File for every text, in the
\* debug configuration too.
ParseAlwaysFile ==
    op = "parse" => IsFile(file)

\* debug build, a text with an R_CURLY that closes nothing and diagnostics
ParseAlwaysFileWitness ==
    /\ op = "parse"
    /\ debug
    /\ IsFile(file)
    /\ file.errors # <<>>
    /\ ~is_balanced(tokenize(syntax_text(file)))
    /\ \E i \in 1..Len(file.green) :
          file.green[i].kind = "R_CURLY" /\ file.green[file.green[i].parent].kind = "ERROR"

\* C10 (errors() is a copy): a caller changing the list it got never changes
\* the File, and every errors() call returns the list the first call returned.
ErrorsIndependentCopy ==
    /\ IsFile(file) => file = orig
    /\ op = "errors" => returned.items = firstErrs.items

\* a later errors() call, made after the caller changed the list it held
ErrorsIndependentCopyWitness ==
    /\ op = "errors"
    /\ mutated
    /\ firstErrs # NoVec
    /\ returned.items = firstErrs.items
    /\ returned.items # <<>>
    /\ file.errors = returned.items

(***************************************************************************)
(* Properties of the typed AST layer.                                      *)
(***************************************************************************)
\* the kind set a wrapper declares: a struct its own kind, a union the kinds
\* of the structs its enum lists as variants
DeclaredKinds(K) ==
    IF K \in Unions
    THEN {StructKind[UnionVariants[K][i]] : i \in DOMAIN UnionVariants[K]}
    ELSE {StructKind[K]}

\* C6 (cast correctness): K::cast(n) is defined exactly when the kind of n is
\* in the kind set K declares, for every struct and every union.
CastCorrectness ==
    op = "cast" =>
        (acc.value # NoneValue <=> tree[acc.node].kind \in DeclaredKinds(acc.wrapper))

\* Expr::cast on a BIN_EXPR node, the last arm of the largest union
CastCorrectnessWitness ==
    /\ op = "cast"
    /\ acc.wrapper = "Expr"
    /\ tree[acc.node].kind = "BIN_EXPR"
    /\ acc.value # NoneValue

\* the variants of union U whose own struct cast accepts node n
MatchingVariants(U, n) ==
    {i \in DOMAIN UnionVariants[U] : cast_struct(UnionVariants[U][i], tree, n) # NoneValue}

\* C7 (variants are exclusive): the kinds of a union's variants are pairwise
\* distinct, at most one variant matches a node, and a union value holds the
\* variant whose struct cast accepts the node, wrapping that very node.
UnionVariantsExclusive ==
    /\ \A U \in Unions : \A i, j \in DOMAIN UnionVariants[U] :
          i # j => StructKind[UnionVariants[U][i]] # StructKind[UnionVariants[U][j]]
    /\ (op = "cast" /\ acc.wrapper \in Unions) =>
          /\ Cardinality(MatchingVariants(acc.wrapper, acc.node)) <= 1
          /\ acc.value # NoneValue =>
                /\ \E i \in MatchingVariants(acc.wrapper, acc.node) :
                      UnionVariants[acc.wrapper][i] = acc.value.variant
                /\ acc.value.inner = cast_struct(acc.value.variant, tree, acc.node)
                /\ syntax(acc.value) = acc.node

\* TypeRef::cast on a DYN_TRAIT_TYPE child gave the DynTraitType variant
UnionVariantsExclusiveWitness ==
    /\ op = "cast"
    /\ acc.wrapper = "TypeRef"
    /\ acc.node = 2
    /\ acc.value # NoneValue
    /\ acc.value.variant = "DynTraitType"
    /\ syntax(acc.value) = 2

KindChildren(t, n, k) == {c \in child_indices(t, n) : t[c].kind = k}

AccessorKind(fn) ==
    CASE fn = "name" -> "NAME"
      [] fn = "type_param_list" -> "TYPE_PARAM_LIST"
      [] fn = "where_clause" -> "WHERE_CLAUSE"
      [] fn = "attrs" -> "ATTR"

\* C8 (capability correctness): name(), type_param_list() and where_clause()
\* are defined exactly when the node has a direct child of kind NAME,
\* TYPE_PARAM_LIST, WHERE_CLAUSE, and then hold such a child; attrs() yields
\* exactly the direct ATTR children, each once.
CapabilityCorrectness ==
    /\ op \in {"name", "type_param_list", "where_clause"} =>
          LET cs == KindChildren(tree, acc.node, AccessorKind(op))
          IN  /\ acc.value # NoneValue <=> cs # {}
              /\ acc.value # NoneValue => syntax(acc.value) \in cs
    /\ op = "attrs" =>
          LET cs == KindChildren(tree, acc.node, "ATTR")
          IN  /\ {syntax(acc.value[i]) : i \in DOMAIN acc.value} = cs
              /\ Len(acc.value) = Cardinality(cs)

\* name() is None on a node whose only NAME is a grandchild
CapabilityCorrectnessWitness ==
    /\ op = "name"
    /\ acc.value = NoneValue
    /\ \E c \in 1..Len(tree) : /\ tree[c].kind = "NAME"
                               /\ tree[c].parent # 0
                               /\ tree[tree[c].parent].parent = acc.node

(***************************************************************************)
(* Properties of validate_block_structure.                                 *)
(***************************************************************************)
\* braces open after the first i nodes of the preorder walk, an R_CURLY
\* that closes nothing not counted
RECURSIVE OpenBraces(_, _)
OpenBraces(t, i) ==
    IF i = 0 THEN 0
    ELSE LET before == OpenBraces(t, i - 1)
         IN  IF t[i].kind = "L_CURLY" THEN before + 1
             ELSE IF t[i].kind = "R_CURLY" /\ before > 0 THEN before - 1
             ELSE before

\* an L_CURLY never followed by its R_CURLY, or an R_CURLY met when no
\* L_CURLY is open
MissingBrace(t) ==
    \/ OpenBraces(t, Len(t)) > 0
    \/ \E i \in 1..Len(t) : t[i].kind = "R_CURLY" /\ OpenBraces(t, i - 1) = 0

\* every brace belongs to a pair that bounds the children of its parent
PairedTree(t) ==
    \A i \in 1..Len(t) :
        LET sibs == node_children(t, t[i].parent)
        IN  /\ t[i].kind = "L_CURLY" =>
                /\ Head(sibs) = i
                /\ Last(sibs) # i
                /\ t[Last(sibs)].kind = "R_CURLY"
            /\ t[i].kind = "R_CURLY" =>
                /\ Last(sibs) = i
                /\ Head(sibs) # i
                /\ t[Head(sibs)].kind = "L_CURLY"

\* the pair of brace i lies inside another pair: a proper ancestor of the
\* brace's parent has braces of its own
Enclosed(t, i) ==
    \E j \in 1..Len(t) :
        /\ t[j].kind = "L_CURLY"
        /\ t[j].parent # t[i].parent
        /\ \E k \in 1..Len(ancestors(t, t[i].parent)) : ancestors(t, t[i].parent)[k] = t[j].parent

\* C11 as stated (debug build): every tree with a missing brace makes
\* validate_block_structure raise its assertion.
MissingBraceAsserts ==
    (debug /\ op = "validate" /\ MissingBrace(tree)) => acc.value = "panic"

\* C11 as amended (debug build): when one brace is deleted from a tree whose
\* braces are all paired, validate_block_structure raises its assertion
\* exactly when the pair lies inside another brace pair; the brace left of
\* an outermost pair is never compared with anything and the check passes.
MissingBraceAssertsWhenEnclosed ==
    (debug /\ op = "validate" /\ acc.node # 0 /\ PairedTree(acc.before)) =>
        (acc.value = "panic" <=> Enclosed(acc.before, acc.node))

\* debug build: the R_CURLY of an inner pair was deleted and the check panicked
MissingBraceAssertsWhenEnclosedWitness ==
    /\ debug
    /\ op = "validate"
    /\ acc.node # 0
    /\ PairedTree(acc.before)
    /\ acc.before[acc.node].kind = "R_CURLY"
    /\ Enclosed(acc.before, acc.node)
    /\ MissingBrace(tree)
    /\ acc.value = "panic"

\* the R_CURLY nodes that pop an L_CURLY: those met while a brace is open
PoppingBraces(t) == {i \in 1..Len(t) : t[i].kind = "R_CURLY" /\ OpenBraces(t, i - 1) > 0}

\* the L_CURLY popped at R_CURLY i: the last L_CURLY before i that is still
\* open there
PoppedAt(t, i) ==
    CHOOSE j \in 1..(i - 1) :
        /\ t[j].kind = "L_CURLY"
        /\ OpenBraces(t, j) = OpenBraces(t, i - 1)
        /\ \A k \in j..(i - 1) : OpenBraces(t, k) >= OpenBraces(t, j)

\* same parent, nothing before the L_CURLY and nothing after the R_CURLY
\* among the children of that parent
BoundsParent(t, l, r) ==
    /\ t[l].parent = t[r].parent
    /\ \A k \in 1..Len(t) : t[k].parent = t[l].parent => k >= l
    /\ \A k \in 1..Len(t) : t[k].parent = t[r].parent => k <= r

\* C19 (debug build): validate_block_structure passes exactly when every
\* R_CURLY met with an open L_CURLY has the same parent as the L_CURLY it
\* pops and the two are the first and the last child of that parent.
ValidatePassesIffPairsBound ==
    (debug /\ op = "validate") =>
        (acc.value = "ok" <=>
            \A r \in PoppingBraces(tree) : BoundsParent(tree, PoppedAt(tree, r), r))

\* debug build: the check panicked on a pair with one parent whose R_CURLY
\* has a sibling after it, every pair having one parent
ValidatePassesIffPairsBoundWitness ==
    /\ debug
    /\ op = "validate"
    /\ acc.value = "panic"
    /\ PoppingBraces(tree) # {}
    /\ \A r \in PoppingBraces(tree) : tree[PoppedAt(tree, r)].parent = tree[r].parent
    /\ \E r \in PoppingBraces(tree) : next_sibling(tree, r) # 0

\* C12 (release build): validate_block_structure does nothing, so the check
\* returns and File::new yields a File for every tree, whatever its braces.
ReleaseNeverAborts ==
    ~debug => /\ op = "validate" => acc.value = "ok"
              /\ op = "new" => IsFile(result)

\* release build: File::new returned a File for a tree with an R_CURLY that
\* is not the last child of its parent, which the debug walk rejects
ReleaseNeverAbortsWitness ==
    /\ ~debug
    /\ op = "new"
    /\ IsFile(result)
    /\ result.green = tree
    /\ ~validate_block_structure_debug(tree)
    /\ \E i \in 1..Len(tree) : tree[i].kind = "R_CURLY" /\ next_sibling(tree, i) # 0

(***************************************************************************)
(* Properties of File::parse, AtomEdit and the helpers of reparse.         *)
(***************************************************************************)
\* C13 (round trip): the text of the tree File::parse builds, its leaf
\* texts in document order, is the text that was parsed, malformed or not.
ParseRoundTrip ==
    op = "parse" =>
        /\ IsFile(file)
        /\ syntax_text(file) = acc.text
        /\ text_of(file.green, 1, Len(file.green)) = acc.text

\* a malformed text (diagnostics, an ERROR node) came back unchanged
ParseRoundTripWitness ==
    /\ op = "parse"
    /\ IsFile(file)
    /\ Len(acc.text) = MaxLen
    /\ file.errors # <<>>
    /\ \E i \in 1..Len(file.green) : file.green[i].kind = "ERROR"
    /\ syntax_text(file) = acc.text

\* C14 (edit helpers): replace(r, t) stores r and t as they are, delete(r)
\* is the edit with range r and the empty insert, insert(o, t) the edit with
\* the empty range [o, o) and insert t.
EditHelpers ==
    /\ op = "replace" =>
          acc.value = [tag |-> "edit", delete |-> acc.range, insert |-> acc.text]
    /\ op = "delete_range" =>
          acc.value = [tag |-> "edit", delete |-> acc.range, insert |-> <<>>]
    /\ op = "insert" =>
          acc.value = [tag |-> "edit", delete |-> <<acc.offset, acc.offset>>,
                       insert |-> acc.text]

\* insert of a two-character text at an offset inside the text
EditHelpersWitness ==
    /\ op = "insert"
    /\ acc.offset > 0
    /\ Len(acc.text) >= 2
    /\ acc.value.delete[1] = acc.value.delete[2]
    /\ acc.value.insert = acc.text

\* L_CURLY tokens minus R_CURLY tokens among the first i tokens
Depth(tokens, i) ==
    Cardinality({j \in 1..i : tokens[j].kind = "L_CURLY"})
      - Cardinality({j \in 1..i : tokens[j].kind = "R_CURLY"})

\* the list without its i-th token
WithoutToken(tokens, i) == SubSeq(tokens, 1, i - 1) \o SubSeq(tokens, i + 1, Len(tokens))

\* C15 (is_balanced): the result is true exactly when the list is not empty,
\* starts with L_CURLY, ends with R_CURLY, the depth is never negative after
\* any prefix and is zero after the last token; taking out a token of
\* another kind from inside the list does not change the result.
BalancedIff ==
    op = "is_balanced" =>
        LET tokens == acc.tokens
        IN  /\ acc.value <=>
                /\ tokens # <<>>
                /\ tokens[1].kind = "L_CURLY"
                /\ tokens[Len(tokens)].kind = "R_CURLY"
                /\ \A i \in 1..Len(tokens) : Depth(tokens, i) >= 0
                /\ Depth(tokens, Len(tokens)) = 0
            /\ \A i \in 2..(Len(tokens) - 1) :
                  tokens[i].kind \notin {"L_CURLY", "R_CURLY"} =>
                      is_balanced(WithoutToken(tokens, i)) = acc.value

\* accepted: a nested pair with a token of another kind inside
BalancedIffWitness ==
    /\ op = "is_balanced"
    /\ acc.value
    /\ Len(acc.tokens) = MaxTokens
    /\ \E i \in 1..Len(acc.tokens) : Depth(acc.tokens, i) = 2
    /\ \E i \in 1..Len(acc.tokens) : acc.tokens[i].kind = "IDENT"

\* C16 (single unit): in every accepted list the first L_CURLY is closed by
\* the last token, the depth is at least 1 after every token but the last.
BalancedSingleUnit ==
    (op = "is_balanced" /\ acc.value) =>
        \A i \in 1..(Len(acc.tokens) - 1) : Depth(acc.tokens, i) >= 1

\* node a is node n or one of its ancestors (preorder: n lies in a's subtree)
OnChain(t, a, n) == a <= n /\ n <= subtree_end(t, a)

ReparsableKinds == {"BLOCK", "NAMED_FIELD_DEF_LIST"}

EntryPoint(k) ==
    IF k = "BLOCK" THEN "grammar::block" ELSE "grammar::named_field_def_list"

\* C17 (find_reparsable_node): the result is the nearest node on the chain
\* from the covering node to the root whose kind is BLOCK or
\* NAMED_FIELD_DEF_LIST, with the entry point of that kind; it is None
\* exactly when the chain has no such node; the node's range contains the
\* range asked for.
FindReparsableNearest ==
    op = "find_reparsable_node" =>
        LET t == file.green
            cov == find_covering_node(t, acc.range)
            chain == {m \in 1..Len(t) : OnChain(t, m, cov) /\ t[m].kind \in ReparsableKinds}
            found == acc.value
        IN  /\ found.node = 0 <=> chain = {}
            /\ found.node # 0 =>
                  /\ found.node \in chain
                  /\ \A m \in chain : m <= found.node
                  /\ found.reparser = EntryPoint(t[found.node].kind)
                  /\ node_start(t, found.node) <= acc.range[1]
                  /\ acc.range[2] <= node_end(t, found.node)

\* the covering node lies in a BLOCK inside a BLOCK: the inner one is returned
FindReparsableNearestWitness ==
    /\ op = "find_reparsable_node"
    /\ acc.value.node # 0
    /\ acc.range[1] < acc.range[2]
    /\ find_covering_node(file.green, acc.range) # acc.value.node
    /\ \E m \in 1..(acc.value.node - 1) :
          /\ OnChain(file.green, m, acc.value.node)
          /\ file.green[m].kind = "BLOCK"

\* C18 (candidate string): with node range [s, e) and delete range [a, b),
\* the candidate is the node's text with positions [a-s, b-s) replaced by
\* the insert string, and it is the slice of the edited document that starts
\* at s and has length (e - s) - (b - a) + len(insert).
CandidateIsLocalEdit ==
    (op = "incremental_reparse" /\ acc.node # 0) =>
        LET t == file.green
            s == node_start(t, acc.node)
            e == node_end(t, acc.node)
            a == edit.delete[1]
            b == edit.delete[2]
            n == (e - s) - (b - a) + Len(edit.insert)
            local == [edit EXCEPT !.delete = <<a - s, b - s>>]
        IN  /\ s <= a /\ b <= e
            /\ acc.text = Spliced(node_text(t, acc.node), local)
            /\ Len(acc.text) = n
            /\ acc.text = [i \in 1..n |-> Spliced(syntax_text(file), edit)[s + i]]

\* a node that starts after the beginning of the document, an edit that
\* deletes and inserts
CandidateIsLocalEditWitness ==
    /\ op = "incremental_reparse"
    /\ acc.node # 0
    /\ node_start(file.green, acc.node) > 0
    /\ edit.delete[1] < edit.delete[2]
    /\ edit.insert # <<>>
    /\ acc.text # node_text(file.green, acc.node)

(***************************************************************************)
(* Properties of child_opt and children.                                   *)
(***************************************************************************)
TargetKind(fn) ==
    CASE fn = "value" -> "TOKEN_TREE"
      [] fn = "functions" -> "FN_DEF"
      [] fn = "fields" -> "NAMED_FIELD_DEF"

\* C20 (direct children only, in document order): Attr::value (child_opt)
\* is the first direct child of the target kind, None when there is none;
\* Root::functions and StructDef::fields (children) are all the direct
\* children of the target kind in sibling order; no node further down is
\* ever returned.
DirectChildrenInOrder ==
    op \in {"value", "functions", "fields"} =>
        LET direct == {c \in 1..Len(tree) : /\ tree[c].parent = acc.node
                                            /\ tree[c].kind = TargetKind(op)}
        IN  /\ op = "value" =>
                /\ acc.value = NoneValue <=> direct = {}
                /\ acc.value # NoneValue =>
                      /\ syntax(acc.value) \in direct
                      /\ \A c \in direct : syntax(acc.value) <= c
            /\ op \in {"functions", "fields"} =>
                /\ Len(acc.value) = Cardinality(direct)
                /\ \A i \in 1..Len(acc.value) : syntax(acc.value[i]) \in direct
                /\ \A i \in 1..(Len(acc.value) - 1) :
                      syntax(acc.value[i]) < syntax(acc.value[i + 1])

\* fields() of a STRUCT_DEF with two direct NAMED_FIELD_DEF children, the
\* first of which holds a NAMED_FIELD_DEF of its own
DirectChildrenInOrderWitness ==
    /\ op = "fields"
    /\ Len(acc.value) = 2
    /\ \E c \in 1..Len(tree) :
          /\ tree[c].kind = "NAMED_FIELD_DEF"
          /\ tree[c].parent # acc.node
          /\ tree[c].parent = syntax(acc.value[1])

(***************************************************************************)
(* Properties of incremental_reparse and its rebased range.                *)
(***************************************************************************)
\* the exit incremental_reparse takes for the last reparse call
ExitTaken ==
    IF Found.node = 0 THEN "no reparsable node"
    ELSE IF ~CandidateBalanced THEN "unbalanced" ELSE "balanced"

\* C21 (the fast path never yields a File): incremental_reparse is None at
\* each of its three exits, and the File reparse returns is the parse of the
\* whole edited text: its tree, its diagnostics, on a root of its own.
IncrementalAlwaysNone ==
    op = "reparse" =>
        /\ incremental_reparse(orig, edit) = NoneValue
        /\ IsFile(result)
        /\ result.green = FullParseOfEdited.green
        /\ result.errors = FullParseOfEdited.errors
        /\ result.root # orig.root

\* the balanced exit in a NAMED_FIELD_DEF_LIST: the tree returned differs
\* from the receiver's outside the node found as well as inside
IncrementalAlwaysNoneWitness ==
    /\ op = "reparse"
    /\ ExitTaken = "balanced"
    /\ orig.green[Found.node].kind = "NAMED_FIELD_DEF_LIST"
    /\ IsFile(result)
    /\ Len(result.green) # Len(orig.green)
    /\ edit.insert # <<>>

\* C22 (rebased range): when a reparsable node is found, the delete range
\* minus the node's start satisfies 0 <= start <= end <= length of the
\* node's text, so neither the subtraction nor replace_range panics.
RebasedRangeValid ==
    (op = "incremental_reparse" /\ acc.node # 0) =>
        /\ acc.range[1] >= 0
        /\ acc.range[1] <= acc.range[2]
        /\ acc.range[2] <= node_end(file.green, acc.node) - node_start(file.green, acc.node)
        /\ acc.range[2] - acc.range[1] = edit.delete[2] - edit.delete[1]
        /\ acc.value # Panicked

\* the node found starts after the beginning of the document and the delete
\* range ends where the node ends
RebasedRangeValidWitness ==
    /\ op = "incremental_reparse"
    /\ acc.node # 0
    /\ node_start(file.green, acc.node) > 0
    /\ edit.delete[1] < edit.delete[2]
    /\ edit.delete[2] = node_end(file.green, acc.node)
    /\ acc.range[2] = Len(node_text(file.green, acc.node))
    /\ acc.range # edit.delete

(***************************************************************************)
(* Properties of the hand-written accessors of ImplItem and Attr.          *)
(***************************************************************************)
\* the kinds of the structs enum TypeRef lists
TypeRefKinds ==
    {StructKind[UnionVariants["TypeRef"][i]] : i \in DOMAIN UnionVariants["TypeRef"]}

\* the direct children of node n that are types, in sibling order
DirectTypes(t, n) ==
    SortedSeq({c \in 1..Len(t) : t[c].parent = n /\ t[c].kind \in TypeRefKinds})

\* C23 (ImplItem targets): with no direct type child target_type and
\* target_trait are None; with one, target_type is it and target_trait is
\* None; with two or more, target_trait is the first and target_type the
\* second.  A defined target_trait comes with a defined target_type on
\* another node.
ImplTargets ==
    op \in {"target_type", "target_trait"} =>
        LET types == DirectTypes(tree, acc.node)
            self == cast("ImplItem", tree, acc.node)
        IN  /\ op = "target_type" =>
                /\ Len(types) = 0 => acc.value = NoneValue
                /\ Len(types) = 1 => /\ acc.value # NoneValue
                                     /\ syntax(acc.value) = types[1]
                /\ Len(types) >= 2 => /\ acc.value # NoneValue
                                      /\ syntax(acc.value) = types[2]
            /\ op = "target_trait" =>
                /\ Len(types) <= 1 => acc.value = NoneValue
                /\ Len(types) >= 2 => /\ acc.value # NoneValue
                                      /\ syntax(acc.value) = types[1]
                /\ acc.value # NoneValue =>
                      /\ target_type(tree, self) # NoneValue
                      /\ syntax(target_type(tree, self)) # syntax(acc.value)

\* target_type of an IMPL_ITEM with three direct type children, the first
\* of another kind than the second: the second is returned
ImplTargetsWitness ==
    /\ op = "target_type"
    /\ Len(DirectTypes(tree, acc.node)) = 3
    /\ tree[DirectTypes(tree, acc.node)[1]].kind # tree[DirectTypes(tree, acc.node)[2]].kind
    /\ acc.value # NoneValue
    /\ syntax(acc.value) = DirectTypes(tree, acc.node)[2]

\* the direct children of node n, in sibling order
DirectChildren(t, n) == SortedSeq({c \in 1..Len(t) : t[c].parent = n})

\* the first direct TOKEN_TREE child of node n, 0 when there is none
FirstTokenTree(t, n) ==
    LET tts == {c \in 1..Len(t) : t[c].parent = n /\ t[c].kind = "TOKEN_TREE"}
    IN  IF tts = {} THEN 0 ELSE CHOOSE c \in tts : \A d \in tts : c <= d

AtomShape(t, n) ==
    /\ FirstTokenTree(t, n) # 0
    /\ LET cs == DirectChildren(t, FirstTokenTree(t, n))
       IN  Len(cs) = 3 /\ t[cs[2]].kind = "IDENT"

CallShape(t, n) ==
    /\ FirstTokenTree(t, n) # 0
    /\ LET cs == DirectChildren(t, FirstTokenTree(t, n))
       IN  Len(cs) = 4 /\ t[cs[2]].kind = "IDENT" /\ t[cs[3]].kind = "TOKEN_TREE"

\* C24 (Attr::as_atom, Attr::as_call): as_atom is defined exactly when the
\* first direct TOKEN_TREE child has three children with an IDENT in the
\* middle, as_call exactly when it has four with an IDENT second and a
\* TOKEN_TREE third; they are never both defined, and on an Attr without a
\* value both are None and neither panics.
AttrAtomOrCall ==
    op \in {"as_atom", "as_call"} =>
        LET self == cast("Attr", tree, acc.node)
        IN  /\ acc.value # Panicked
            /\ op = "as_atom" => (acc.value # NoneValue <=> AtomShape(tree, acc.node))
            /\ op = "as_call" => (acc.value # NoneValue <=> CallShape(tree, acc.node))
            /\ ~(AtomShape(tree, acc.node) /\ CallShape(tree, acc.node))
            /\ ~(as_atom(tree, self) # NoneValue /\ as_call(tree, self) # NoneValue)
            /\ FirstTokenTree(tree, acc.node) = 0 => acc.value = NoneValue

\* as_call on an Attr whose token tree is  { IDENT TOKEN_TREE {  : defined,
\* it holds the IDENT's text and the inner token tree
AttrAtomOrCallWitness ==
    /\ op = "as_call"
    /\ acc.value # NoneValue
    /\ acc.value # Panicked
    /\ acc.value.text = <<"f", "s">>
    /\ tree[syntax(acc.value.args)].kind = "TOKEN_TREE"
    /\ tree[syntax(acc.value.args)].parent = FirstTokenTree(tree, acc.node)
    /\ as_atom(tree, cast("Attr", tree, acc.node)) = NoneValue

====
